---- MODULE Spec2Model ----
(***************************************************************************)
(* Smartsheet <-> Bind ERP synchronisation service (src/main.py).          *)
(*                                                                         *)
(* The module models                                                       *)
(*   - the reconciliation pass _push_to_sheet (indexing of the destination *)
(*     sheet, rule resolution, cell mapping, insert/update partition) and  *)
(*     the two batched writes of _smartsheet_call;                         *)
(*   - the fetch aggregator _traer_facturas_por_empresas (row selection,   *)
(*     one fetch task per row, gather, sequential push loop, result);      *)
(*   - the scheduler loop _job_runner with _parse_iso and                  *)
(*     _actualizar_timestamps;                                             *)
(*   - a manual push trigger running beside the scheduler's cycle.         *)
(*                                                                         *)
(* Python values are modelled as follows: None is the string None, text is *)
(* a TLA+ string, a column id or row id is a positive integer and 0 stands *)
(* for "no id" (Python tests them with `if not cid` / `if not row_id`),    *)
(* an amount is kept in cents after rounding.                              *)
(***************************************************************************)
EXTENDS Integers, Sequences, FiniteSets, TLC

(***************************************************************************)
(* Bounds of the model.                                                    *)
(***************************************************************************)
MaxBatch == 2      \* source records in one fetched batch
MaxRows == 2       \* rows of the destination sheet before the first pass

None == "None"
NoId == 0

Truthy(v) == v # None /\ v # ""

Last(s) == s[Len(s)]

SetMax(S) == CHOOSE x \in S : \A y \in S : y <= x

(***************************************************************************)
(* Text conversions, given by their value on the texts the model uses.     *)
(***************************************************************************)

\* str.strip()
Strip(s) ==
  CASE s = " A1" -> "A1"
    [] s = "A1 " -> "A1"
    [] s = " " -> ""
    [] s = "abc123 " -> "abc123"
    [] s = " G01" -> "G01"
    [] OTHER -> s

\* str.upper()
Upper(s) ==
  CASE s = "abc123" -> "ABC123"
    [] s = "xyz999" -> "XYZ999"
    [] OTHER -> s

\* str.lower()
Lower(s) ==
  CASE s = "Date" -> "date"
    [] s = "UUID" -> "uuid"
    [] s = "RFC" -> "rfc"
    [] s = "Total" -> "total"
    [] s = "CFDIUse" -> "cfdiuse"
    [] s = "DateIssued" -> "dateissued"
    [] s = "Folio" -> "folio"
    [] OTHER -> s

StartsWithDate(s) == s \in {"date", "dateissued"}

\* _slug: NFD, drop non-ASCII, drop spaces, lower-case
_slug(text) ==
  CASE text = "UUID" -> "uuid"
    [] text = "Fecha emisión" -> "fechaemision"
    [] text = "Fecha Emision" -> "fechaemision"
    [] text = "RFC Receptor" -> "rfcreceptor"
    [] text = "Total" -> "total"
    [] text = "TOTAL" -> "total"
    [] text = "Tipo CFDI" -> "tipocfdi"
    [] text = "Folio" -> "folio"
    [] text = "Serie" -> "serie"
    [] text = "Cliente" -> "cliente"
    [] text = "cliente" -> "cliente"
    [] text = "Intervalo (minutos)" -> "intervalo(minutos)"
    [] text = "Ultima ejecucion" -> "ultimaejecucion"
    [] text = "Siguiente ejecucion" -> "siguienteejecucion"
    [] OTHER -> text

\* _iso: None for a falsy argument, the date part of an ISO text, else the text
_iso(d) ==
  IF ~Truthy(d) THEN None
  ELSE CASE d = "2025-07-01T10:00:00" -> "2025-07-01"
         [] d = "2025-07-01" -> "2025-07-01"
         [] d = "2025-07-02T23:59:59" -> "2025-07-02"
         [] d = "2025-07-02" -> "2025-07-02"
         [] OTHER -> d

\* _coerce_total: round(float(val), 2), in cents; 0.0 when float() raises
_coerce_total(val) ==
  CASE val = "100.004" -> 10000
    [] val = "100" -> 10000
    [] val = "100.0" -> 10000
    [] val = "250.5" -> 25050
    [] val = "250.50" -> 25050
    [] OTHER -> 0

OrEmpty(v) == IF Truthy(v) THEN v ELSE ""

_make_signature(date, rfc, total, cfdi) ==
  << OrEmpty(_iso(OrEmpty(date))),
     Upper(Strip(OrEmpty(rfc))),
     _coerce_total(total),
     Strip(OrEmpty(cfdi)) >>

(***************************************************************************)
(* Python dicts: functions whose domain is the set of keys.                *)
(***************************************************************************)
EmptyDict == [k \in {} |-> NoId]

DictGet(d, k, default) == IF k \in DOMAIN d THEN d[k] ELSE default

DictPut(d, k, v) == [x \in (DOMAIN d) \cup {k} |-> IF x = k THEN v ELSE d[x]]

(***************************************************************************)
(* Mapping rules ("Reglas JSON").  A rule set is the sequence of the       *)
(* dict's items (source key, destination column title) in dict order.      *)
(* The cell's texts the model uses and what json.loads makes of them:      *)
(***************************************************************************)
default_rules ==
  << <<"UUID", "UUID">>,
     <<"Date", "Fecha emisión">>,
     <<"RFC", "RFC Receptor">>,
     <<"Total", "Total">>,
     <<"CFDIUse", "Tipo CFDI">> >>

RulesAbsent == None
RulesEmpty == ""
RulesBadJson == "{map:"
RulesJsonArray == "[1, 2]"
RulesJsonNull == "null"
RulesNoMap == "{\"other\": 1}"
RulesEmptyMap == "{\"map\": {}}"
RulesCustom == "{\"map\": {\"UUID\": \"UUID\", \"Total\": \"TOTAL\", \"Folio\": \"Folio\"}}"
RulesMapIsList == "{\"map\": [\"UUID\"]}"
RulesMapIsText == "{\"map\": \"UUID\"}"
RulesNonTextColumn == "{\"map\": {\"UUID\": 5}}"

JsonNumber5 == "<5>"
IsStr(v) == v # JsonNumber5

\* json.loads: [ok |-> FALSE] when it raises, else the value's type and, for
\* an object, its "map" property ([type |-> "none"] when absent).
json_loads(text) ==
  CASE text = RulesJsonArray -> [ok |-> TRUE, type |-> "list"]
    [] text = RulesJsonNull -> [ok |-> TRUE, type |-> "none"]
    [] text = RulesNoMap -> [ok |-> TRUE, type |-> "dict", map |-> [type |-> "none"]]
    [] text = RulesEmptyMap ->
         [ok |-> TRUE, type |-> "dict", map |-> [type |-> "dict", items |-> << >>]]
    [] text = RulesCustom ->
         [ok |-> TRUE, type |-> "dict",
          map |-> [type |-> "dict",
                   items |-> << <<"UUID", "UUID">>, <<"Total", "TOTAL">>,
                                <<"Folio", "Folio">> >>]]
    [] text = RulesMapIsList ->
         [ok |-> TRUE, type |-> "dict", map |-> [type |-> "list", items |-> <<"UUID">>]]
    [] text = RulesMapIsText ->
         [ok |-> TRUE, type |-> "dict", map |-> [type |-> "str", items |-> <<"UUID">>]]
    [] text = RulesNonTextColumn ->
         [ok |-> TRUE, type |-> "dict",
          map |-> [type |-> "dict", items |-> << <<"UUID", JsonNumber5>> >>]]
    [] OTHER -> [ok |-> FALSE]

\* bool(value) of a parsed JSON value
JsonTruthy(v) == v.type # "none" /\ v.items # << >>

DefaultRuleSet == [type |-> "dict", items |-> default_rules]

\* lines 276-280: the try block that picks the rule set
ResolveRules(rules_json) ==
  IF ~Truthy(rules_json) THEN DefaultRuleSet      \* ({}) or default_rules
  ELSE LET js == json_loads(rules_json) IN
       IF ~js.ok THEN DefaultRuleSet              \* json.loads raised
       ELSE IF js.type # "dict" THEN DefaultRuleSet  \* .get raised AttributeError
       ELSE IF JsonTruthy(js.map) THEN js.map ELSE DefaultRuleSet

\* line 282: rules.items() needs a dict, _slug(dst) needs a str
SlugRulesRaises(rules) ==
  \/ rules.type # "dict"
  \/ \E i \in DOMAIN rules.items : ~IsStr(rules.items[i][2])

RECURSIVE SlugRulesUpTo(_, _)
SlugRulesUpTo(items, n) ==
  IF n = 0 THEN EmptyDict
  ELSE DictPut(SlugRulesUpTo(items, n - 1), items[n][1], _slug(items[n][2]))

slug_rules(rules) == SlugRulesUpTo(rules.items, Len(rules.items))

(***************************************************************************)
(* The destination sheet: columns <<[id, title]>> and rows <<[id, cells]>>,*)
(* cells a function from column id to the cell's value (None when empty).  *)
(***************************************************************************)
RECURSIVE ColMapUpTo(_, _)
ColMapUpTo(columns, n) ==
  IF n = 0 THEN EmptyDict
  ELSE DictPut(ColMapUpTo(columns, n - 1), _slug(columns[n].title), columns[n].id)

col_map(sheet) == ColMapUpTo(sheet.columns, Len(sheet.columns))

uuid_col_id(sheet, rules) ==
  DictGet(col_map(sheet), DictGet(slug_rules(rules), "UUID", ""), NoId)

SigKeys == <<"Date", "RFC", "Total", "CFDIUse">>

SigColsFrom(cmap, srules) ==
  [ix \in 1..4 |-> DictGet(cmap, DictGet(srules, SigKeys[ix], ""), NoId)]

sig_cols(sheet, rules) == SigColsFrom(col_map(sheet), slug_rules(rules))

\* lines 297-304 for one row: the row's identity and its four signature values
row_uuid(ucid, r) ==
  IF ucid # NoId /\ ucid \in DOMAIN r.cells /\ Truthy(r.cells[ucid])
    THEN Strip(r.cells[ucid]) ELSE None

sig_vals(sc, r) ==
  [ix \in 1..4 |->
     IF sc[ix] # NoId /\ sc[ix] \in DOMAIN r.cells THEN r.cells[sc[ix]] ELSE None]

SignatureOf(sv) == _make_signature(sv[1], sv[2], sv[3], sv[4])

RowSignature(sc, r) == SignatureOf(sig_vals(sc, r))

\* lines 296-307: both indexes after the first n rows
PutIfTruthy(d, k, v) == IF Truthy(k) THEN DictPut(d, k, v) ELSE d

RECURSIVE UuidToRowUpTo(_, _, _)
UuidToRowUpTo(rows, ucid, n) ==
  IF n = 0 THEN EmptyDict
  ELSE PutIfTruthy(UuidToRowUpTo(rows, ucid, n - 1), row_uuid(ucid, rows[n]), rows[n].id)

uuid_to_row(sheet, rules) ==
  UuidToRowUpTo(sheet.rows, uuid_col_id(sheet, rules), Len(sheet.rows))

\* a variant that keeps the first row indexed under a Signature
RECURSIVE SigToRowUpTo_FirstWins(_, _, _)
SigToRowUpTo_FirstWins(rows, sc, n) ==
  IF n = 0 THEN EmptyDict
  ELSE IF RowSignature(sc, rows[n]) \in DOMAIN SigToRowUpTo_FirstWins(rows, sc, n - 1)
    THEN SigToRowUpTo_FirstWins(rows, sc, n - 1)
    ELSE DictPut(SigToRowUpTo_FirstWins(rows, sc, n - 1), RowSignature(sc, rows[n]), rows[n].id)

RECURSIVE SigToRowUpTo(_, _, _)
SigToRowUpTo(rows, sc, n) ==
  IF n = 0 THEN EmptyDict
  ELSE DictPut(SigToRowUpTo(rows, sc, n - 1), RowSignature(sc, rows[n]), rows[n].id)

sig_to_row(sheet, rules) ==
  SigToRowUpTo(sheet.rows, sig_cols(sheet, rules), Len(sheet.rows))

(***************************************************************************)
(* One source record (a dict of the fetched invoice's fields).             *)
(***************************************************************************)
FacGet(fac, k) == DictGet(fac, k, None)

uuid_val(fac) == Strip(OrEmpty(FacGet(fac, "UUID")))

sig_key(fac) ==
  _make_signature(FacGet(fac, "Date"), FacGet(fac, "RFC"),
                  FacGet(fac, "Total"), FacGet(fac, "CFDIUse"))

\* lines 323-331: one rule applied to one record
AddCell(prev, src_key, cid, val) ==
  IF cid = NoId THEN prev
  ELSE IF val = None THEN prev
  ELSE Append(prev,
         [columnId |-> cid,
          value |-> IF StartsWithDate(Lower(src_key)) THEN _iso(val) ELSE val])

\* lines 322-331: the mapped cells of a record, in rule order
RECURSIVE CellsUpTo(_, _, _, _)
CellsUpTo(fac, items, cmap, n) ==
  IF n = 0 THEN << >>
  ELSE AddCell(CellsUpTo(fac, items, cmap, n - 1), items[n][1],
               DictGet(cmap, _slug(items[n][2]), NoId), FacGet(fac, items[n][1]))

BuildCells(fac, rules, cmap) == CellsUpTo(fac, rules.items, cmap, Len(rules.items))

\* lines 336-340: identity first, then signature
FirstFound(byUuid, sigIdx, sig) ==
  IF byUuid # NoId THEN byUuid ELSE DictGet(sigIdx, sig, NoId)

\* a variant that consults the signature index first
ResolveRow_SignatureFirst(fac, uuidIdx, sigIdx) ==
  FirstFound(DictGet(sigIdx, sig_key(fac), NoId), uuidIdx, uuid_val(fac))

ResolveRow(fac, uuidIdx, sigIdx) ==
  FirstFound(IF uuid_val(fac) # "" THEN DictGet(uuidIdx, uuid_val(fac), NoId) ELSE NoId,
             sigIdx, sig_key(fac))

\* lines 333-345: a record with no cell is skipped, a resolved one is an
\* update, any other an insert.  src is the record's position in the batch;
\* it is kept beside each entry for the properties and is not sent.
\* a variant without the test `if not cells: continue`
Emit_NoSkip(prev, n, cells, row_id) ==
  IF row_id # NoId
    THEN [prev EXCEPT !.updates = Append(@, [id |-> row_id, cells |-> cells, src |-> n])]
    ELSE [prev EXCEPT !.inserts = Append(@, [cells |-> cells, src |-> n])]

Emit(prev, n, cells, row_id) ==
  IF cells = << >> THEN prev
  ELSE IF row_id # NoId
    THEN [prev EXCEPT !.updates = Append(@, [id |-> row_id, cells |-> cells, src |-> n])]
    ELSE [prev EXCEPT !.inserts = Append(@, [cells |-> cells, src |-> n])]

\* lines 312-345
RECURSIVE Partition(_, _, _, _, _, _)
Partition(facs, rules, cmap, uuidIdx, sigIdx, n) ==
  IF n = 0 THEN [inserts |-> << >>, updates |-> << >>]
  ELSE Emit(Partition(facs, rules, cmap, uuidIdx, sigIdx, n - 1), n,
            BuildCells(facs[n], rules, cmap),
            ResolveRow(facs[n], uuidIdx, sigIdx))

WithStatus(status, p) == [status |-> status, inserts |-> p.inserts, updates |-> p.updates]

PartitionWith(rules, sheet, facs) ==
  IF SlugRulesRaises(rules)
    THEN [status |-> "raised", inserts |-> << >>, updates |-> << >>]
    ELSE WithStatus("ok", Partition(facs, rules, col_map(sheet), uuid_to_row(sheet, rules),
                                    sig_to_row(sheet, rules), Len(facs)))

\* _push_to_sheet up to line 345.  readable: ss.Sheets.get_sheet succeeded.
\* status "unreadable": logged and returned (lines 260-264); "raised": an
\* exception left the function at line 282; "ok": inserts and updates built.
Reconcile(readable, sheet, facs, rules_text) ==
  IF ~readable
    THEN [status |-> "unreadable", inserts |-> << >>, updates |-> << >>]
    ELSE PartitionWith(ResolveRules(rules_text), sheet, facs)

(***************************************************************************)
(* The destination's side of the two batched writes (lines 347-356): a     *)
(* 2xx POST appends one row per insert, a 2xx PUT overwrites the listed    *)
(* cells of each addressed row, in payload order.                          *)
(***************************************************************************)
ColumnIds(sheet) == {sheet.columns[i].id : i \in DOMAIN sheet.columns}

RowIds(sheet) == {sheet.rows[i].id : i \in DOMAIN sheet.rows}

NextRowId(sheet) == IF sheet.rows = << >> THEN 1 ELSE SetMax(RowIds(sheet)) + 1

RECURSIVE SetCells(_, _, _)
SetCells(cellsOfRow, cells, n) ==
  IF n = 0 THEN cellsOfRow
  ELSE [SetCells(cellsOfRow, cells, n - 1) EXCEPT ![cells[n].columnId] = cells[n].value]

BlankCells(sheet) == [cid \in ColumnIds(sheet) |-> None]

NewRow(sheet, blank, ins) ==
  [id |-> NextRowId(sheet), cells |-> SetCells(blank, ins.cells, Len(ins.cells))]

\* a destination that refuses a row equal to one it already holds
AppendRow_IfAbsent(sheet, blank, ins) ==
  IF \E i \in DOMAIN sheet.rows : sheet.rows[i].cells = NewRow(sheet, blank, ins).cells
    THEN sheet
    ELSE [sheet EXCEPT !.rows = Append(@, NewRow(sheet, blank, ins))]

AppendRow(sheet, blank, ins) == [sheet EXCEPT !.rows = Append(@, NewRow(sheet, blank, ins))]

RECURSIVE ApplyInserts(_, _, _)
ApplyInserts(sheet, inserts, n) ==
  IF n = 0 THEN sheet
  ELSE AppendRow(ApplyInserts(sheet, inserts, n - 1), BlankCells(sheet), inserts[n])

UpdateRow(sheet, u) ==
  [sheet EXCEPT !.rows =
     [i \in DOMAIN @ |->
        IF @[i].id = u.id
          THEN [@[i] EXCEPT !.cells = SetCells(@, u.cells, Len(u.cells))]
          ELSE @[i]]]

RECURSIVE ApplyUpdates(_, _, _)
ApplyUpdates(sheet, updates, n) ==
  IF n = 0 THEN sheet
  ELSE UpdateRow(ApplyUpdates(sheet, updates, n - 1), updates[n])

(***************************************************************************)
(* State.                                                                  *)
(*   sheet      the destination sheet                                      *)
(*   facturas   the records the account's fetch returns                    *)
(*   rules_json the account's "Reglas JSON" cell                           *)
(*   ppc, plan  per cycle: its position in _push_to_sheet and the inserts  *)
(*              and updates it built                                       *)
(*   pass       number of the pass the cycle "job" is running              *)
(*   clean      every pass so far read the sheet and had its writes applied*)
(*   calls      the calls to the destination of each process's pass        *)
(*                                                                         *)
(*   cfg        the configuration sheet's rows                             *)
(*   id_fila, push_mode  arguments of the running aggregator call          *)
(*   apc        position of the aggregator call                            *)
(*   tasks      its fetch tasks, pushed the pushes it ran, result the dict *)
(*              it returned                                                *)
(*                                                                         *)
(*   now        the clock, in seconds (UTC)                                *)
(*   spc, ri    position of _job_runner and the row it is at               *)
(*   passes     per configuration row, the reconcile-and-write passes run  *)
(*              for it in this tick                                        *)
(*   cycle      what _job_runner did with the row it handled last          *)
(*                                                                         *)
(*   remote     what the record source answers to a request of each url    *)
(*   url, page, fetched  bind_get_all's locals url, page and facturas      *)
(*   gpc, ret   position of bind_get_all and what it returned              *)
(***************************************************************************)
VARIABLES sheet, facturas, rules_json, ppc, plan, pass, clean, calls,
          cfg, id_fila, push_mode, apc, tasks, pushed, result,
          now, spc, ri, passes, cycle,
          remote, url, page, fetched, gpc, ret

recVars == <<sheet, facturas, rules_json, ppc, plan, pass, clean, calls>>

aggVars == <<id_fila, push_mode, apc, tasks, pushed, result>>

schedVars == <<now, spc, ri, passes, cycle>>

getVars == <<remote, url, page, fetched, gpc, ret>>

vars == <<recVars, cfg, aggVars, schedVars, getVars>>

Procs == {"job", "manual"}

NoCycle ==
  [row |-> 0, at |-> 0, ran |-> FALSE, fetch |-> "none", push |-> "none",
   raised |-> FALSE, before |-> [kind |-> "none", wall |-> 0, zone |-> ""],
   beforeNext |-> [kind |-> "none", wall |-> 0, zone |-> ""]]

AggIdle ==
  /\ cfg = << >>
  /\ id_fila = None
  /\ push_mode = FALSE
  /\ apc = "idle"
  /\ tasks = << >>
  /\ pushed = << >>
  /\ result = EmptyDict

\* ret before bind_get_all returns; the returned list is kept as << list >>
NoReturn == << >>

\* no fetch of bind_get_all is followed
GetIdle ==
  /\ remote = << >>
  /\ url = None
  /\ page = 0
  /\ fetched = << >>
  /\ gpc = "idle"
  /\ ret = NoReturn

SchedIdle ==
  /\ now = 0
  /\ spc = "off"
  /\ ri = 0
  /\ passes = << >>
  /\ cycle = NoCycle

MaxPass == 2

NoPlan == [status |-> "none", inserts |-> << >>, updates |-> << >>]

Outcomes == {"2xx", "non2xx", "raise"}

\* lines 260-345: open the sheet, resolve the rules, index, partition
PushRead(p, readable) ==
  /\ ppc[p] = "read"
  /\ \E r \in {Reconcile(readable, sheet, facturas, rules_json)} :
       /\ plan' = [plan EXCEPT ![p] = r]
       /\ ppc' = [ppc EXCEPT ![p] =
                    CASE r.status = "ok" -> "post"
                      [] r.status = "unreadable" -> "done"
                      [] r.status = "raised" -> "raised"]
       /\ clean' = (clean /\ r.status = "ok")
  /\ calls' = Append(SelectSeq(calls, LAMBDA c : c.proc # p),
                     [proc |-> p, method |-> "GET", n |-> 0,
                      outcome |-> IF readable THEN "2xx" ELSE "raise"])
  /\ UNCHANGED <<sheet, facturas, rules_json, pass, cfg, aggVars, schedVars, getVars>>

\* _smartsheet_call (lines 367-386): a transport error raises at line 378,
\* a non-2xx status is logged (line 386) and the call returns.
SmartsheetCall(p, method, payload, outcome, applied, nextPc) ==
  /\ calls' = Append(calls, [proc |-> p, method |-> method, n |-> Len(payload),
                             outcome |-> outcome])
  /\ sheet' = IF outcome = "2xx" THEN applied ELSE sheet
  /\ clean' = (clean /\ outcome = "2xx")
  /\ ppc' = [ppc EXCEPT ![p] = IF outcome = "raise" THEN "raised" ELSE nextPc]

\* a variant without the test `if inserts:`
PostInserts_NoSkip(p, outcome) ==
  /\ ppc[p] = "post"
  /\ SmartsheetCall(p, "POST", plan[p].inserts, outcome,
                    ApplyInserts(sheet, plan[p].inserts, Len(plan[p].inserts)),
                    "put")
  /\ UNCHANGED <<facturas, rules_json, plan, pass, cfg, aggVars, schedVars, getVars>>

\* lines 347-348
PostInserts(p, outcome) ==
  /\ ppc[p] = "post"
  /\ IF plan[p].inserts # << >>
       THEN SmartsheetCall(p, "POST", plan[p].inserts, outcome,
                           ApplyInserts(sheet, plan[p].inserts, Len(plan[p].inserts)),
                           "put")
       ELSE /\ outcome = "2xx"
            /\ ppc' = [ppc EXCEPT ![p] = "put"]
            /\ UNCHANGED <<sheet, clean, calls>>
  /\ UNCHANGED <<facturas, rules_json, plan, pass, cfg, aggVars, schedVars, getVars>>

\* lines 349-356
PutUpdates(p, outcome) ==
  /\ ppc[p] = "put"
  /\ IF plan[p].updates # << >>
       THEN SmartsheetCall(p, "PUT", plan[p].updates, outcome,
                           ApplyUpdates(sheet, plan[p].updates, Len(plan[p].updates)),
                           "done")
       ELSE /\ outcome = "2xx"
            /\ ppc' = [ppc EXCEPT ![p] = "done"]
            /\ UNCHANGED <<sheet, clean, calls>>
  /\ UNCHANGED <<facturas, rules_json, plan, pass, cfg, aggVars, schedVars, getVars>>

\* the account's next cycle: the same records are fetched and pushed again.
\* The model follows the account into a further pass after a pass that read
\* the sheet and had every write applied.
NextPass ==
  /\ ppc["job"] = "done"
  /\ clean
  /\ pass < MaxPass
  /\ pass' = pass + 1
  /\ ppc' = [ppc EXCEPT !["job"] = "read"]
  /\ UNCHANGED <<sheet, facturas, rules_json, plan, clean, calls, cfg, aggVars, schedVars, getVars>>

(***************************************************************************)
(* Inputs of the reconciliation: records, destination layouts and rows.    *)
(***************************************************************************)
Fac(u, d, r, t, c) == [UUID |-> u, Date |-> d, RFC |-> r, Total |-> t, CFDIUse |-> c]

FacPool ==
  { Fac("A1", "2025-07-01T10:00:00", "abc123", "100.004", "G01"),
    Fac("B2", "2025-07-01", "ABC123", "100", "G01"),
    Fac("B2", "2025-07-02", "XYZ999", "250.5", "G03"),
    Fac(None, "2025-07-01T10:00:00", "abc123 ", "100.0", " G01"),
    Fac(" A1", "2025-07-02T23:59:59", "xyz999", "250.50", "G03"),
    Fac("A1", None, None, None, None) }

Cols(titles) == [i \in DOMAIN titles |-> [id |-> i, title |-> titles[i]]]

Layouts ==
  { Cols(<<"UUID", "Fecha Emision", "RFC Receptor", "TOTAL", "Tipo CFDI", "Folio">>),
    Cols(<<"Fecha Emision", "RFC Receptor", "Total", "Tipo CFDI">>),
    Cols(<<"Total", "Serie">>) }

\* a row of the pool, given by column slug, laid out on the sheet's columns
RowPool ==
  { [uuid |-> "A1", fechaemision |-> "2025-07-01", rfcreceptor |-> "ABC123",
     total |-> "100", tipocfdi |-> "G01"],
    [uuid |-> "B2", fechaemision |-> "2025-07-01", rfcreceptor |-> "ABC123",
     total |-> "100", tipocfdi |-> "G01"],
    [uuid |-> "A1 ", fechaemision |-> "2025-07-02", rfcreceptor |-> "XYZ999",
     total |-> "250.5", tipocfdi |-> "G03"],
    [uuid |-> None, fechaemision |-> None, rfcreceptor |-> None,
     total |-> None, tipocfdi |-> None] }

LayRow(columns, id, content) ==
  [id |-> id,
   cells |-> [cid \in {columns[i].id : i \in DOMAIN columns} |->
                LET title == (CHOOSE i \in DOMAIN columns : columns[i].id = cid)
                    slug == _slug(columns[title].title)
                IN IF slug \in DOMAIN content THEN content[slug] ELSE None]]

SeqsUpTo(S, n) == UNION {[1..k -> S] : k \in 0..n}

Sheets(maxRows) ==
  { [columns |-> cols, rows |-> [i \in DOMAIN rs |-> LayRow(cols, i, rs[i])]] :
      cols \in Layouts, rs \in SeqsUpTo(RowPool, maxRows) }

InitRec ==
  /\ facturas \in SeqsUpTo(FacPool, MaxBatch)
  /\ sheet \in Sheets(MaxRows)
  /\ rules_json \in {RulesAbsent, RulesCustom}
  /\ ppc = [p \in Procs |-> IF p = "job" THEN "read" ELSE "idle"]
  /\ plan = [p \in Procs |-> NoPlan]
  /\ pass = 1
  /\ clean = TRUE
  /\ calls = << >>
  /\ AggIdle
  /\ SchedIdle
  /\ GetIdle

NextRec ==
  \/ \E readable \in BOOLEAN : PushRead("job", readable)
  \/ \E o \in Outcomes : PostInserts("job", o)
  \/ \E o \in Outcomes : PutUpdates("job", o)
  \/ NextPass

SpecRec == InitRec /\ [][NextRec]_vars

\* every kind of "Reglas JSON" cell, on small batches and sheets
RulesTexts ==
  { RulesAbsent, RulesEmpty, RulesBadJson, RulesJsonArray, RulesJsonNull, RulesNoMap,
    RulesEmptyMap, RulesCustom, RulesMapIsList, RulesMapIsText, RulesNonTextColumn }

InitRules ==
  /\ facturas \in SeqsUpTo(FacPool, 1)
  /\ sheet \in Sheets(1)
  /\ rules_json \in RulesTexts
  /\ ppc = [p \in Procs |-> IF p = "job" THEN "read" ELSE "idle"]
  /\ plan = [p \in Procs |-> NoPlan]
  /\ pass = 1
  /\ clean = TRUE
  /\ calls = << >>
  /\ AggIdle
  /\ SchedIdle
  /\ GetIdle

SpecRules == InitRules /\ [][NextRec]_vars

\* full batches against destinations of at most one row: the write calls
InitWrite ==
  /\ facturas \in SeqsUpTo(FacPool, MaxBatch)
  /\ sheet \in Sheets(1)
  /\ rules_json \in {RulesAbsent, RulesCustom}
  /\ ppc = [p \in Procs |-> IF p = "job" THEN "read" ELSE "idle"]
  /\ plan = [p \in Procs |-> NoPlan]
  /\ pass = 1
  /\ clean = TRUE
  /\ calls = << >>
  /\ AggIdle
  /\ SchedIdle
  /\ GetIdle

SpecWrite == InitWrite /\ [][NextRec]_vars

\* batches of at most one record against full destinations: the indexes
InitIndex ==
  /\ facturas \in SeqsUpTo(FacPool, 1)
  /\ sheet \in Sheets(MaxRows)
  /\ rules_json \in {RulesAbsent, RulesCustom}
  /\ ppc = [p \in Procs |-> IF p = "job" THEN "read" ELSE "idle"]
  /\ plan = [p \in Procs |-> NoPlan]
  /\ pass = 1
  /\ clean = TRUE
  /\ calls = << >>
  /\ AggIdle
  /\ SchedIdle
  /\ GetIdle

SpecIndex == InitIndex /\ [][NextRec]_vars

(***************************************************************************)
(* Properties of the reconciliation pass.  They are stated on the state    *)
(* right after PushRead, where plan holds what the pass built from the     *)
(* sheet as it still is.                                                   *)
(***************************************************************************)
JobBuilt == ppc["job"] = "post"

JobRules == ResolveRules(rules_json)

JobPlan == plan["job"]

UpdatesOf(n) == {k \in DOMAIN JobPlan.updates : JobPlan.updates[k].src = n}

InsertsOf(n) == {k \in DOMAIN JobPlan.inserts : JobPlan.inserts[k].src = n}

HasIdentity(fac) == Truthy(FacGet(fac, "UUID")) /\ Strip(FacGet(fac, "UUID")) # ""

\* the destination has the column the rules map UUID to
HasIdentityColumn == uuid_col_id(sheet, JobRules) # NoId

\* some rule maps a field the record carries to a column the sheet has
HasMappedCell(fac) ==
  \E i \in DOMAIN JobRules.items :
    /\ \E c \in DOMAIN sheet.columns :
         _slug(sheet.columns[c].title) = _slug(JobRules.items[i][2])
    /\ FacGet(fac, JobRules.items[i][1]) # None

IdentitiesPresentAndUnique ==
  /\ \A n \in DOMAIN facturas : HasIdentity(facturas[n])
  /\ \A n, m \in DOMAIN facturas :
       n # m => Strip(facturas[n].UUID) # Strip(facturas[m].UUID)

\* C4: Idempotence.  When every record of the batch carries a non-empty
\* identity and the identities are pairwise distinct, a second pass over the
\* same batch, run after every write of the first pass was applied to the
\* destination, classifies every record as an update and builds no insert.
\* (Stated for a destination that has the identity column.)
C4_SecondPassOnlyUpdates ==
  (JobBuilt /\ pass = 2 /\ facturas # << >> /\ IdentitiesPresentAndUnique
     /\ HasIdentityColumn)
    => /\ JobPlan.inserts = << >>
       /\ \A n \in DOMAIN facturas : UpdatesOf(n) # {}

\* C5: Identity precedence.  A record whose non-empty identity is in the
\* identity index becomes an update of the identity-matched row, also when
\* its Signature is in the signature index under a different row.
C5_IdentityPrecedence ==
  JobBuilt =>
    \A uIdx \in {uuid_to_row(sheet, JobRules)} :
      \A n \in DOMAIN facturas : \A u \in {uuid_val(facturas[n])} :
        (u # "" /\ u \in DOMAIN uIdx)
          => /\ InsertsOf(n) = {}
             /\ Cardinality(UpdatesOf(n)) = 1
             /\ \A k \in UpdatesOf(n) : JobPlan.updates[k].id = uIdx[u]

\* a record's identity is indexed under one row and its Signature under another
C5_Witness ==
  /\ JobBuilt
  /\ \E n \in DOMAIN facturas :
       LET u == uuid_val(facturas[n])
           uIdx == uuid_to_row(sheet, JobRules)
           sIdx == sig_to_row(sheet, JobRules)
       IN /\ u # "" /\ u \in DOMAIN uIdx
          /\ sig_key(facturas[n]) \in DOMAIN sIdx
          /\ sIdx[sig_key(facturas[n])] # uIdx[u]
          /\ \E k \in UpdatesOf(n) : JobPlan.updates[k].id = uIdx[u]

\* C6: Partition completeness.  Each record with at least one mapped cell
\* is in exactly one of inserts and updates, each record with none is in
\* neither, and |inserts| + |updates| is the number of records with a
\* mapped cell.
C6_PartitionComplete ==
  JobBuilt =>
    /\ \A n \in DOMAIN facturas :
         Cardinality(InsertsOf(n)) + Cardinality(UpdatesOf(n))
           = IF HasMappedCell(facturas[n]) THEN 1 ELSE 0
    /\ Len(JobPlan.inserts) + Len(JobPlan.updates)
         = Cardinality({n \in DOMAIN facturas : HasMappedCell(facturas[n])})

\* a batch of two records, one without any mapped cell and one that is placed
C6_Witness ==
  /\ JobBuilt
  /\ Len(facturas) = 2
  /\ Len(JobPlan.inserts) + Len(JobPlan.updates) = 1
  /\ \E n \in DOMAIN facturas : ~HasMappedCell(facturas[n])

\* C8: Mapping fallback is never fatal.  Whatever the rules cell holds, the
\* pass uses the configured map or the default rules, and no error caused by
\* the rules leaves _push_to_sheet: an exception that leaves it comes from a
\* write call, after the inserts and updates were built.
C8_RulesErrorNeverEscapes ==
  ppc["job"] = "raised" => JobPlan.status = "ok"

\* the write calls the scheduler's pass has issued so far, in order
JobWrites == SelectSeq(calls, LAMBDA c : c.proc = "job" /\ c.method # "GET")

\* C11: Batch writer ordering.  A reconciliation pass issues at most two
\* write calls, none for an empty insert batch and none for an empty update
\* batch, and when both batches are non-empty the insert call is issued and
\* has completed before the update call is issued.
C11_WriteOrdering ==
  ppc["job"] # "read" =>
    /\ Len(JobWrites) <= 2
    /\ \A k \in DOMAIN JobWrites :
         /\ JobWrites[k].n > 0
         /\ JobWrites[k].method = "POST" =>
              k = 1 /\ JobWrites[k].n = Len(JobPlan.inserts)
         /\ JobWrites[k].method = "PUT" =>
              /\ JobWrites[k].n = Len(JobPlan.updates)
              /\ ppc["job"] \in {"done", "raised"}
              /\ JobPlan.inserts # << >> => (k = 2 /\ JobWrites[1].method = "POST")
    /\ (ppc["job"] = "done" /\ JobPlan.status = "ok") =>
         Len(JobWrites) = (IF JobPlan.inserts # << >> THEN 1 ELSE 0)
                            + (IF JobPlan.updates # << >> THEN 1 ELSE 0)

\* a pass with both batches non-empty is over: POST, then PUT
C11_Witness ==
  /\ ppc["job"] = "done"
  /\ JobPlan.inserts # << >> /\ JobPlan.updates # << >>
  /\ Len(JobWrites) = 2
  /\ JobWrites[1].method = "POST" /\ JobWrites[2].method = "PUT"

\* C12: A failed destination write returns normally.  A write call that
\* fails is not raised to the caller of _push_to_sheet and is not retried,
\* and it ends that batch only: after a failed insert call the update batch
\* of the same pass is still issued.
C12_WriteFailureReturns ==
  ppc["job"] # "read" =>
    \A k \in DOMAIN JobWrites :
      JobWrites[k].outcome # "2xx" =>
        /\ ppc["job"] # "raised"
        /\ \A j \in DOMAIN JobWrites : JobWrites[j].method = JobWrites[k].method => j = k
        /\ (JobWrites[k].method = "POST" /\ JobPlan.updates # << >>) =>
             \/ ppc["job"] = "put"
             \/ \E j \in DOMAIN JobWrites : JobWrites[j].method = "PUT"

(***************************************************************************)
(* The fetch aggregator _traer_facturas_por_empresas (lines 209-253).      *)
(*                                                                         *)
(* A configuration row is [ID, Cliente, token, dest, rules, interval,      *)
(* last, next]: the cells "ID", "Cliente", "API Token", "Hoja destino ID", *)
(* "Reglas JSON", "Intervalo (minutos)", "Ultima ejecucion" and "Siguiente *)
(* ejecucion".                                                             *)
(***************************************************************************)
MaxAccounts == 3   \* rows of the configuration sheet

\* the text of a timestamp cell: empty, not an ISO text, or an ISO text given
\* by its wall-clock reading (in seconds) and its zone suffix
NoStamp == [kind |-> "none", wall |-> 0, zone |-> ""]

JunkStamp == [kind |-> "junk", wall |-> 0, zone |-> ""]

Iso(wall, zone) == [kind |-> "iso", wall |-> wall, zone |-> zone]

CfgRow(id, name, token, dest, rules, interval, last) ==
  [ID |-> id, Cliente |-> name, token |-> token, dest |-> dest, rules |-> rules,
   interval |-> interval, last |-> last, next |-> NoStamp]

\* f"ID-{row.get('ID')}"
IdLabel(id) ==
  CASE id = None -> "ID-None"
    [] id = "1" -> "ID-1"
    [] id = "2" -> "ID-2"
    [] OTHER -> "ID-?"

\* line 222
cliente(row) == IF Truthy(row.Cliente) THEN row.Cliente ELSE IdLabel(row.ID)

\* a variant without the test `if not token:`
Skipped_IgnoreToken(row, id) == Truthy(id) /\ row.ID # id

\* lines 216-217 and 224-226: the row is passed over
Skipped(row, id) == (Truthy(id) /\ row.ID # id) \/ ~Truthy(row.token)

\* lines 233-238
AddTask(prev, row, n, id) ==
  IF Skipped(row, id) THEN prev
  ELSE Append(prev, [row |-> n, etiqueta |-> cliente(row), dest_sheet |-> row.dest,
                     rules |-> row.rules, state |-> "running", count |-> 0,
                     error |-> ""])

\* lines 215-238: etiquetas, metas and tasks, one entry per attempted row
RECURSIVE TasksUpTo(_, _, _)
TasksUpTo(config, id, n) ==
  IF n = 0 THEN << >>
  ELSE AddTask(TasksUpTo(config, id, n - 1), config[n], n, id)

CreateTasks(config, id) == TasksUpTo(config, id, Len(config))

\* what a fetch task ends with: the list bind_get_all returns (its length is
\* kept) or the exception it raises
FetchOutcomes ==
  { [state |-> "ok", count |-> 1, error |-> ""],
    [state |-> "failed", count |-> 0, error |-> "timeout"],
    [state |-> "failed", count |-> 0, error |-> "status"] }

Finished(task, out) ==
  [task EXCEPT !.state = out.state, !.count = out.count, !.error = out.error]

\* line 253: the returned dict, keyed by etiqueta
ResultEntry(task) ==
  IF task.state = "failed" THEN [error |-> task.error, count |-> 0]
  ELSE [error |-> "", count |-> task.count]

RECURSIVE ResultUpTo(_, _)
ResultUpTo(ts, n) ==
  IF n = 0 THEN EmptyDict
  ELSE DictPut(ResultUpTo(ts, n - 1), ts[n].etiqueta, ResultEntry(ts[n]))

ResultDict(ts) == ResultUpTo(ts, Len(ts))

\* the destination and records of a push inside an aggregator call
AggSheet ==
  [columns |-> Cols(<<"UUID", "Fecha Emision", "RFC Receptor", "TOTAL", "Tipo CFDI">>),
   rows |-> << >>]

AggBatch(n) ==
  [i \in 1..n |-> Fac("A1", "2025-07-01T10:00:00", "abc123", "100.004", "G01")]

\* what the destination does during one push: the sheet cannot be opened, or
\* the write is applied, answered with a non-2xx status, or fails in transport
PushEnvs == {"applied", "unreadable", "non2xx", "raise"}

AfterPlan(r, env) ==
  IF r.status = "raised" THEN "raised"
  ELSE IF r.status = "unreadable" THEN "unreadable"
  ELSE IF r.inserts = << >> /\ r.updates = << >> THEN "nothing"
  ELSE IF env = "raise" THEN "raised"
  ELSE env

\* lines 245-251 for one task: what its iteration of the push loop does
PushEntry(task, env) ==
  IF task.state = "failed" THEN "fetch_failed"
  ELSE IF ~Truthy(task.dest_sheet) THEN "no_dest"
  ELSE AfterPlan(Reconcile(env # "unreadable", AggSheet, AggBatch(task.count), task.rules),
                 env)

\* lines 210-238.  config_ok: bind_config() returned
AggStart(id, push, config_ok) ==
  /\ apc = "idle"
  /\ id_fila' = id
  /\ push_mode' = push
  /\ tasks' = IF config_ok THEN CreateTasks(cfg, id) ELSE << >>
  /\ apc' = IF config_ok THEN "gather" ELSE "raised"
  /\ UNCHANGED <<pushed, result, cfg, recVars, schedVars, getVars>>

\* one fetch task ends
FetchFinish(i, out) ==
  /\ apc = "gather"
  /\ i \in DOMAIN tasks
  /\ tasks[i].state = "running"
  /\ tasks' = [tasks EXCEPT ![i] = Finished(@, out)]
  /\ UNCHANGED <<id_fila, push_mode, apc, pushed, result, cfg, recVars, schedVars, getVars>>

\* lines 240-244, and line 253 when push_mode is off
Gathered ==
  /\ apc = "gather"
  /\ \A i \in DOMAIN tasks : tasks[i].state # "running"
  /\ apc' = IF push_mode THEN "push" ELSE "returned"
  /\ result' = IF push_mode THEN result ELSE ResultDict(tasks)
  /\ UNCHANGED <<id_fila, push_mode, tasks, pushed, cfg, recVars, schedVars, getVars>>

\* lines 245-251: one iteration of the push loop
PushOne(env) ==
  /\ apc = "push"
  /\ Len(pushed) < Len(tasks)
  /\ \E e \in {PushEntry(tasks[Len(pushed) + 1], env)} :
       /\ e \in {"fetch_failed", "no_dest"} => env = "applied"
       /\ pushed' = Append(pushed, e)
       /\ apc' = IF e = "raised" THEN "raised" ELSE "push"
  /\ UNCHANGED <<id_fila, push_mode, tasks, result, cfg, recVars, schedVars, getVars>>

\* line 253 after the push loop
AggReturn ==
  /\ apc = "push"
  /\ Len(pushed) = Len(tasks)
  /\ apc' = "returned"
  /\ result' = ResultDict(tasks)
  /\ UNCHANGED <<id_fila, push_mode, tasks, pushed, cfg, recVars, schedVars, getVars>>

CfgPoolAgg ==
  { CfgRow("1", "ACME", "tok", "D1", RulesAbsent, None, NoStamp),
    CfgRow("2", "Beta", "tok", "D2", RulesMapIsList, None, NoStamp),
    CfgRow("2", "ACME", "tok", None, RulesAbsent, None, NoStamp),
    CfgRow("1", None, None, "D1", RulesAbsent, None, NoStamp) }

\* configuration sheets: up to n different rows of the pool, in any order
Configs(pool, n) ==
  {c \in SeqsUpTo(pool, n) : c # << >> /\ \A i, j \in DOMAIN c : i # j => c[i] # c[j]}

RecIdle ==
  /\ sheet = AggSheet
  /\ facturas = << >>
  /\ rules_json = None
  /\ ppc = [p \in Procs |-> "idle"]
  /\ plan = [p \in Procs |-> NoPlan]
  /\ pass = 0
  /\ clean = TRUE
  /\ calls = << >>

InitAgg ==
  /\ cfg \in Configs(CfgPoolAgg, MaxAccounts)
  /\ id_fila = None
  /\ push_mode = FALSE
  /\ apc = "idle"
  /\ tasks = << >>
  /\ pushed = << >>
  /\ result = EmptyDict
  /\ RecIdle
  /\ SchedIdle
  /\ GetIdle

NextAgg ==
  \/ \E id \in {None, "2"}, push \in BOOLEAN, ok \in BOOLEAN : AggStart(id, push, ok)
  \/ \E i \in 1..(MaxAccounts + 1), out \in FetchOutcomes : FetchFinish(i, out)
  \/ Gathered
  \/ \E env \in PushEnvs : PushOne(env)
  \/ AggReturn

SpecAgg == InitAgg /\ [][NextAgg]_vars

(***************************************************************************)
(* Properties of the aggregator call.                                      *)
(***************************************************************************)
AggEnded == apc \in {"returned", "raised"}

\* C1: Fetch aggregation without push.  Whatever subset of the fetches
\* fails, every fetch task runs to completion, the returned result holds
\* the record count of each account whose fetch succeeded and the captured
\* error of each account whose fetch failed, and no fetch exception leaves
\* the call.
C1_ResultPerAccount ==
  (AggEnded /\ ~push_mode /\ tasks # << >>) =>
    /\ apc = "returned"
    /\ \A i \in DOMAIN tasks :
         /\ tasks[i].state \in {"ok", "failed"}
         /\ tasks[i].etiqueta \in DOMAIN result
         /\ result[tasks[i].etiqueta] = ResultEntry(tasks[i])
    /\ Cardinality(DOMAIN result) = Len(tasks)

\* C9: Push-phase isolation.  When the aggregator call with push ends, every
\* account whose fetch succeeded and that has a destination sheet had its
\* reconcile-and-write pass, whatever happened to the other accounts' pushes.
C9_PushIsolation ==
  (AggEnded /\ push_mode) =>
    \A i \in DOMAIN tasks :
      (tasks[i].state = "ok" /\ Truthy(tasks[i].dest_sheet))
        => /\ i <= Len(pushed)
           /\ pushed[i] \notin {"fetch_failed", "no_dest"}

\* the call read the configuration and created its tasks
TasksCreated == apc \in {"gather", "push", "returned"} \/ (apc = "raised" /\ pushed # << >>)

\* the row passes the filter of line 216
Selected(row) == ~(Truthy(id_fila) /\ row.ID # id_fila)

TaskRows == {tasks[i].row : i \in DOMAIN tasks}

\* C14: Accounts without a token.  No fetch task is created for a selected
\* account without a token and the result holds no entry for it (every
\* entry of the result is the entry of an attempted account), while every
\* other selected account that has a token gets its fetch task, which has
\* ended when the fetches were gathered.
C14_NoTokenNeverFetched ==
  TasksCreated =>
    /\ \A n \in DOMAIN cfg :
         (Selected(cfg[n]) /\ ~Truthy(cfg[n].token)) =>
           /\ n \notin TaskRows
           /\ (\A i \in DOMAIN tasks : tasks[i].etiqueta # cliente(cfg[n])) =>
                cliente(cfg[n]) \notin DOMAIN result
    /\ \A n \in DOMAIN cfg :
         (Selected(cfg[n]) /\ Truthy(cfg[n].token)) =>
           \E i \in DOMAIN tasks :
             /\ tasks[i].row = n
             /\ apc # "gather" => tasks[i].state \in {"ok", "failed"}
    /\ DOMAIN result \subseteq {tasks[i].etiqueta : i \in DOMAIN tasks}

\* a call over an account without token and one with token has returned:
\* the second one is in the result, the first one is not
C14_Witness ==
  /\ apc = "returned"
  /\ \E n, k \in DOMAIN cfg :
       /\ Selected(cfg[n]) /\ ~Truthy(cfg[n].token)
       /\ Selected(cfg[k]) /\ Truthy(cfg[k].token)
       /\ cliente(cfg[k]) \in DOMAIN result
       /\ cliente(cfg[n]) \notin DOMAIN result

(***************************************************************************)
(* The scheduler _job_runner (lines 412-452), with _parse_iso and          *)
(* _actualizar_timestamps.  Instants are seconds on the UTC time line.     *)
(***************************************************************************)
MaxSchedRows == 2  \* rows of the configuration sheet the scheduler walks
MaxTicks == 3      \* ticks after the first one

MxUtcOffset == -21600    \* MX_TZ, America/Mexico_City: UTC-06:00
TickSeconds == 60        \* asyncio.sleep(60)

\* the offset of an ISO text's zone suffix; a text without suffix parses to a
\* naive datetime, which _parse_iso takes as Mexico City time (line 109)
ZoneOffset(zone) ==
  CASE zone = "+00:00" -> 0
    [] zone = "-06:00" -> -21600
    [] OTHER -> MxUtcOffset

\* s.replace("Z", "")
DropZ(stamp) == IF stamp.zone = "Z" THEN [stamp EXCEPT !.zone = ""] ELSE stamp

\* _parse_iso: the instant read from the cell, ok FALSE for None
_parse_iso(stamp) ==
  IF stamp.kind # "iso" THEN [ok |-> FALSE, t |-> 0]
  ELSE [ok |-> TRUE, t |-> DropZ(stamp).wall - ZoneOffset(DropZ(stamp).zone)]

\* lines 394-397: datetime.now(timezone.utc) as ISO text ending in "Z"
UtcStamp(t) == Iso(t, "Z")

\* lines 429-433: int(c.value), 0 when the cell is empty or int() raises.
\* A cell holds a number (written here by its literal) or a text: int() of
\* the number 1.5 is 1, int() of the text "abc" raises.
IntOf(v) ==
  CASE v = "1" -> 1
    [] v = "2" -> 2
    [] v = "0" -> 0
    [] v = "-1" -> -1
    [] v = "1.5" -> 1
    [] OTHER -> 0

intervalo(row) == IntOf(row.interval)

\* lines 441-442: mins_passed is None or mins_passed >= intervalo
DueAt(ult, t, mins) == ~ult.ok \/ t - ult.t >= 60 * mins

\* lines 437-442
Due(row, t) == intervalo(row) > 0 /\ DueAt(_parse_iso(row.last), t, intervalo(row))

\* what happens to one attempted account during a cycle of the scheduler
CycleEnvs == {"applied", "fetch_fail", "non2xx", "raise"}

FetchOf(env) ==
  IF env = "fetch_fail" THEN [state |-> "failed", count |-> 0, error |-> "timeout"]
  ELSE [state |-> "ok", count |-> 1, error |-> ""]

\* lines 238-240 inside the cycle: every task has ended when gather returns
RunTasks(ts, envs) == [k \in DOMAIN ts |-> Finished(ts[k], FetchOf(envs[k]))]

\* lines 245-251: the push loop, left at the first push that raises
PushNext(prev, task, env) ==
  IF prev # << >> /\ Last(prev) = "raised" THEN prev
  ELSE Append(prev, PushEntry(task, IF env = "fetch_fail" THEN "applied" ELSE env))

RECURSIVE PushLoop(_, _, _)
PushLoop(ts, envs, n) ==
  IF n = 0 THEN << >> ELSE PushNext(PushLoop(ts, envs, n - 1), ts[n], envs[n])

PassEntries == {"applied", "non2xx", "raised", "unreadable", "nothing"}

PassesIn(ts, ps, i) == Cardinality({k \in DOMAIN ps : ts[k].row = i /\ ps[k] \in PassEntries})

OwnTask(ts, i) == {k \in DOMAIN ts : ts[k].row = i}

\* the record of a cycle run for row i
CycleOf(i, t, row, ts, ps, raised) ==
  [row |-> i, at |-> t, ran |-> TRUE,
   fetch |-> IF \E k \in OwnTask(ts, i) : ts[k].state = "failed" THEN "failed"
             ELSE IF OwnTask(ts, i) # {} THEN "ok" ELSE "none",
   push |-> IF \E k \in OwnTask(ts, i) : k \in DOMAIN ps /\ ps[k] \in {"non2xx", "raised"}
              THEN "failed"
            ELSE IF \E k \in OwnTask(ts, i) : k \in DOMAIN ps /\ ps[k] \in PassEntries
              THEN "ok" ELSE "none",
   raised |-> raised, before |-> row.last, beforeNext |-> row.next]

\* _actualizar_timestamps (lines 392-410)
Stamped(config, i, t) ==
  [config EXCEPT ![i].last = UtcStamp(t),
                 ![i].next = UtcStamp(t + 60 * intervalo(config[i]))]

\* lines 444-448 for row i: the cycle, then the timestamps unless an
\* exception was caught.  config_ok: bind_config() returned; update_ok:
\* ss.Sheets.update_rows returned.
RunCycle(i, ts, ps, config_ok, update_ok) ==
  \E raised \in {~config_ok \/ (ps # << >> /\ Last(ps) = "raised")} :
    /\ cfg' = IF ~raised /\ update_ok THEN Stamped(cfg, i, now) ELSE cfg
    /\ passes' = [j \in DOMAIN passes |-> passes[j] + PassesIn(ts, ps, j)]
    /\ cycle' = CycleOf(i, now, cfg[i], ts, ps, raised)

\* lines 414-419.  sheet_ok: ss.Sheets.get_sheet returned; when it raises
\* the exception leaves _job_runner
JobReadSheet(sheet_ok) ==
  /\ spc = "tick"
  /\ spc' = IF sheet_ok THEN "rows" ELSE "dead"
  /\ ri' = 1
  /\ passes' = [j \in DOMAIN cfg |-> 0]
  /\ UNCHANGED <<now, cycle, cfg, aggVars, recVars, getVars>>

\* lines 421-450 for one row
JobRow(envs, config_ok, update_ok) ==
  /\ spc = "rows"
  /\ ri <= Len(cfg)
  /\ ri' = ri + 1
  /\ IF Due(cfg[ri], now)
       THEN \E ts \in {IF config_ok THEN RunTasks(CreateTasks(cfg, cfg[ri].ID), envs)
                       ELSE << >>} :
              /\ \A k \in DOMAIN envs : k > Len(ts) => envs[k] = "applied"
              /\ RunCycle(ri, ts, PushLoop(ts, envs, Len(ts)), config_ok, update_ok)
       ELSE /\ \A k \in DOMAIN envs : envs[k] = "applied"
            /\ config_ok /\ update_ok
            /\ cycle' = [NoCycle EXCEPT !.row = ri, !.at = now, !.before = cfg[ri].last,
                                        !.beforeNext = cfg[ri].next]
            /\ UNCHANGED <<cfg, passes>>
  /\ UNCHANGED <<now, spc, aggVars, recVars, getVars>>

\* line 452
JobSleep ==
  /\ spc = "rows"
  /\ ri > Len(cfg)
  /\ now < TickSeconds * MaxTicks
  /\ now' = now + TickSeconds
  /\ spc' = "tick"
  /\ UNCHANGED <<ri, passes, cycle, cfg, aggVars, recVars, getVars>>

CfgPoolSched ==
  { CfgRow("1", "ACME", "tok", "D1", RulesAbsent, "1", NoStamp),
    CfgRow("2", "Beta", "tok", "D2", RulesAbsent, "2", Iso(-60, "+00:00")),
    CfgRow(None, "Gamma", "tok", "D3", RulesAbsent, "1", Iso(MxUtcOffset - 59, "")),
    CfgRow("1", "Delta", "tok", "D4", RulesMapIsList, "1", Iso(MxUtcOffset - 60, "-06:00")),
    CfgRow("2", "Omega", None, "D5", RulesAbsent, "2", JunkStamp),
    CfgRow("3", "Idle", "tok", "D6", RulesAbsent, "0", NoStamp),
    CfgRow("4", "Text", "tok", "D7", RulesAbsent, "abc", Iso(-120, "+00:00")),
    CfgRow("5", "Frac", "tok", "D8", RulesAbsent, "1.5", NoStamp) }

InitSched ==
  /\ cfg \in Configs(CfgPoolSched, MaxSchedRows)
  /\ now = 0
  /\ spc = "tick"
  /\ ri = 0
  /\ passes = [j \in DOMAIN cfg |-> 0]
  /\ cycle = NoCycle
  /\ id_fila = None
  /\ push_mode = FALSE
  /\ apc = "idle"
  /\ tasks = << >>
  /\ pushed = << >>
  /\ result = EmptyDict
  /\ RecIdle
  /\ GetIdle

NextSched ==
  \/ \E ok \in BOOLEAN : JobReadSheet(ok)
  \/ \E envs \in [1..MaxSchedRows -> CycleEnvs], c \in BOOLEAN, u \in BOOLEAN :
       JobRow(envs, c, u)
  \/ JobSleep

SpecSched == InitSched /\ [][NextSched]_vars

(***************************************************************************)
(* Properties of the scheduler.  cycle describes the row _job_runner       *)
(* handled last: whether a cycle ran for it, at what time, how the row's   *)
(* own fetch and push ended, and the row's timestamps before.              *)
(***************************************************************************)
Handled == cycle.row # 0

CycleFailed == cycle.fetch = "failed" \/ cycle.push = "failed"

\* the instant an ISO text denotes: "Z" is UTC, an offset is itself, a text
\* without zone is local (Mexico City) time
Instant(stamp) ==
  stamp.wall - (CASE stamp.zone = "Z" -> 0
                  [] stamp.zone = "+00:00" -> 0
                  [] stamp.zone = "-06:00" -> -21600
                  [] OTHER -> MxUtcOffset)

\* C2: Scheduler timestamps.  A row's lastExecutedAt/nextExecutedAt change
\* only after that row's cycle succeeded, and then to now and now +
\* intervalMinutes; when the row's cycle fails (its fetch or its write
\* fails) they stay as they were and the row is Due again at the next tick.
C2_TimestampsOnlyAfterSuccess ==
  (Handled /\ cycle.ran) =>
    /\ CycleFailed =>
         /\ cfg[cycle.row].last = cycle.before
         /\ cfg[cycle.row].next = cycle.beforeNext
         /\ Due(cfg[cycle.row], cycle.at + TickSeconds)
    /\ (cfg[cycle.row].last # cycle.before \/ cfg[cycle.row].next # cycle.beforeNext) =>
         /\ ~CycleFailed
         /\ cfg[cycle.row].last = UtcStamp(cycle.at)
         /\ cfg[cycle.row].next = UtcStamp(cycle.at + 60 * intervalo(cfg[cycle.row]))

\* C3: At most one pass per account per tick.  Within one tick no
\* configuration row goes through more than one reconcile-and-write pass.
C3_AtMostOnePassPerTick ==
  \A i \in DOMAIN passes : passes[i] <= 1

\* C7: Due-ness.  A row with intervalMinutes > 0 triggers a cycle at a tick
\* exactly when its lastExecutedAt is absent or unparsable or the time
\* elapsed since lastExecutedAt is at least intervalMinutes.
C7_DueIffIntervalElapsed ==
  (Handled /\ intervalo(cfg[cycle.row]) > 0) =>
    (cycle.ran <=>
       \/ cycle.before.kind # "iso"
       \/ cycle.at - Instant(cycle.before) >= 60 * intervalo(cfg[cycle.row]))

\* the interval cell holds a whole number
IsWholeNumber(v) == v \in {"-1", "0", "1", "2"}

\* C13: Idle rows.  A row whose interval is <= 0, absent or not an integer
\* triggers no cycle and has no timestamp written by the scheduler, at any
\* tick and whatever its lastExecutedAt.
C13_IdleRowsNeverRun ==
  (Handled /\ (~IsWholeNumber(cfg[cycle.row].interval) \/ intervalo(cfg[cycle.row]) <= 0)) =>
    /\ ~cycle.ran
    /\ cfg[cycle.row].last = cycle.before
    /\ cfg[cycle.row].next = cycle.beforeNext

\* C19: Scheduler liveness.  Once started the scheduler loop never stops:
\* whatever fails during a tick (reading the configuration sheet, a row's
\* cycle, the timestamp write), the loop goes on to its next tick, so a row
\* that is Due is attempted again.  Stated as: the loop is never left.
C19_LoopNeverStops == spc # "dead"

(***************************************************************************)
(* Overlapping cycles for one account: POST /bind/facturas/push            *)
(* (bind_push) while _job_runner's cycle for the same account runs.  Both  *)
(* are coroutines on one event loop; every await of _push_to_sheet (the    *)
(* sheet read, the POST, the PUT) is a point where the other may run.      *)
(* Both fetched the same records of the account.                           *)
(***************************************************************************)
\* lines 184-187: bind_push schedules _traer_facturas_por_empresas(push_mode=True)
ManualTrigger ==
  /\ ppc["manual"] = "idle"
  /\ ppc' = [ppc EXCEPT !["manual"] = "read"]
  /\ UNCHANGED <<sheet, facturas, rules_json, plan, pass, clean, calls, cfg, aggVars, schedVars, getVars>>

\* lines 444-446: the scheduler's cycle for the row
JobTrigger ==
  /\ ppc["job"] = "idle"
  /\ ppc' = [ppc EXCEPT !["job"] = "read"]
  /\ UNCHANGED <<sheet, facturas, rules_json, plan, pass, clean, calls, cfg, aggVars, schedVars, getVars>>

InitRace ==
  /\ facturas \in SeqsUpTo(FacPool, MaxBatch) \ {<< >>}
  /\ sheet \in Sheets(1)
  /\ rules_json = RulesAbsent
  /\ ppc = [p \in Procs |-> "idle"]
  /\ plan = [p \in Procs |-> NoPlan]
  /\ pass = 1
  /\ clean = TRUE
  /\ calls = << >>
  /\ AggIdle
  /\ SchedIdle
  /\ GetIdle

NextRace ==
  \/ ManualTrigger
  \/ JobTrigger
  \/ \E p \in Procs, readable \in BOOLEAN : PushRead(p, readable)
  \/ \E p \in Procs, o \in Outcomes : PostInserts(p, o)
  \/ \E p \in Procs, o \in Outcomes : PutUpdates(p, o)

SpecRace == InitRace /\ [][NextRace]_vars

\* position in calls of p's call with this method and outcome, 0 if none
CallAt(p, method, outcome) ==
  IF \E k \in DOMAIN calls :
       calls[k].proc = p /\ calls[k].method = method /\ calls[k].outcome = outcome
    THEN CHOOSE k \in DOMAIN calls :
           calls[k].proc = p /\ calls[k].method = method /\ calls[k].outcome = outcome
    ELSE 0

\* both cycles read the destination before either one's insert was applied,
\* and both inserts were applied
BothReadThenInserted ==
  /\ \A p \in Procs : CallAt(p, "GET", "2xx") # 0 /\ CallAt(p, "POST", "2xx") # 0
  /\ \A p, q \in Procs : CallAt(p, "GET", "2xx") < CallAt(q, "POST", "2xx")

\* the destination rows holding every cell an insert carries
RowsHolding(ins) ==
  {i \in DOMAIN sheet.rows :
     sheet.rows[i].cells = SetCells(BlankCells(sheet), ins.cells, Len(ins.cells))}

\* C10: Overlapping cycles for the same account are not mutually excluded.
\* When the manual cycle and the scheduler's cycle both read the destination
\* before either one's insert is applied and both then insert, the record
\* each of them inserted is in the destination twice: two rows for one
\* source record.
C10_OverlapDuplicates ==
  BothReadThenInserted =>
    \A k \in DOMAIN plan["job"].inserts :
      /\ plan["manual"].inserts = plan["job"].inserts
      /\ Cardinality(RowsHolding(plan["job"].inserts[k])) >= 2

\* both cycles are over, the batch's record was absent from the destination
\* both read, and it is now there in two rows with the same identity
C10_Witness ==
  /\ BothReadThenInserted
  /\ ppc = [p \in Procs |-> "done"]
  /\ \E n \in DOMAIN facturas :
       /\ HasIdentity(facturas[n])
       /\ \E k \in DOMAIN plan["job"].inserts : plan["job"].inserts[k].src = n
       /\ \E k \in DOMAIN plan["manual"].inserts : plan["manual"].inserts[k].src = n
       /\ HasIdentityColumn
       /\ Cardinality({i \in DOMAIN sheet.rows :
                         row_uuid(uuid_col_id(sheet, JobRules), sheet.rows[i])
                           = uuid_val(facturas[n])}) = 2

(***************************************************************************)
(* Properties of the two indexes and of the lookup (lines 284-345).        *)
(***************************************************************************)
\* the pass is over and every call of it was answered 2xx
PassApplied == ppc["job"] = "done" /\ clean /\ JobPlan.status = "ok"

\* C15: Signature-fallback convergence.  For a destination without identity
\* column, or a record without identity, a record a pass inserted is held by
\* a destination row whose Signature equals the record's Signature, so the
\* next pass resolves the record to an inserted row and updates it.
C15_SignatureConverges ==
  PassApplied =>
    \A k \in DOMAIN JobPlan.inserts :
      (~HasIdentityColumn \/ ~HasIdentity(facturas[JobPlan.inserts[k].src])) =>
        /\ \E i \in RowsHolding(JobPlan.inserts[k]) :
             RowSignature(sig_cols(sheet, JobRules), sheet.rows[i])
               = sig_key(facturas[JobPlan.inserts[k].src])
        /\ sig_key(facturas[JobPlan.inserts[k].src]) \in DOMAIN sig_to_row(sheet, JobRules)

\* C16: Duplicate identities in one batch.  Two records of one pass that
\* carry the same non-empty identity both become updates of the same
\* destination row, in fetch order in the update batch; neither becomes an
\* insert.  (Stated for records that have a mapped cell and a destination
\* that has the identity column.)
C16_DuplicateIdentityBothUpdate ==
  (JobBuilt /\ HasIdentityColumn) =>
    \A n, m \in DOMAIN facturas :
      (/\ n < m
       /\ HasIdentity(facturas[n]) /\ HasIdentity(facturas[m])
       /\ uuid_val(facturas[n]) = uuid_val(facturas[m])
       /\ HasMappedCell(facturas[n]) /\ HasMappedCell(facturas[m])) =>
        /\ InsertsOf(n) = {} /\ InsertsOf(m) = {}
        /\ \E a \in UpdatesOf(n), b \in UpdatesOf(m) :
             a < b /\ JobPlan.updates[a].id = JobPlan.updates[b].id

\* the id of the last destination row with this Signature, NoId if none
LastSigRow(sc, sig) ==
  IF \E i \in DOMAIN sheet.rows : RowSignature(sc, sheet.rows[i]) = sig
    THEN sheet.rows[SetMax({i \in DOMAIN sheet.rows :
                              RowSignature(sc, sheet.rows[i]) = sig})].id
    ELSE NoId

\* the id of the last destination row with this identity, NoId if none
LastUuidRow(ucid, u) ==
  IF \E i \in DOMAIN sheet.rows : row_uuid(ucid, sheet.rows[i]) = u
    THEN sheet.rows[SetMax({i \in DOMAIN sheet.rows :
                              row_uuid(ucid, sheet.rows[i]) = u})].id
    ELSE NoId

\* the record's identity gives no row, so the Signature is looked up
BySignature(n, uIdx) == uuid_val(facturas[n]) = "" \/ uuid_val(facturas[n]) \notin DOMAIN uIdx

\* both indexes of the sheet the pass read hold, for each key, the last row
\* having it, and the updates found by Signature target that row
IndexShadows(sc, ucid, sIdx, uIdx) ==
  /\ \A i \in DOMAIN sheet.rows :
       /\ \A sig \in {RowSignature(sc, sheet.rows[i])} :
            sig \in DOMAIN sIdx /\ sIdx[sig] = LastSigRow(sc, sig)
       /\ \A u \in {row_uuid(ucid, sheet.rows[i])} :
            Truthy(u) => (u \in DOMAIN uIdx /\ uIdx[u] = LastUuidRow(ucid, u))
  /\ Cardinality(DOMAIN sIdx) <= Len(sheet.rows)
  /\ \A n \in DOMAIN facturas : \A k \in UpdatesOf(n) :
       BySignature(n, uIdx) => JobPlan.updates[k].id = LastSigRow(sc, sig_key(facturas[n]))

\* C17: Index shadowing.  The signature index maps each Signature to the id
\* of the last destination row having it and the identity index maps each
\* non-empty identity to the last row having it, so a record matched by its
\* Signature is an update of the last row with that Signature.
C17_LastRowShadows ==
  JobBuilt =>
    \A rules \in {JobRules} :
      \A sc \in {sig_cols(sheet, rules)}, ucid \in {uuid_col_id(sheet, rules)} :
        \A sIdx \in {SigToRowUpTo(sheet.rows, sc, Len(sheet.rows))},
           uIdx \in {UuidToRowUpTo(sheet.rows, ucid, Len(sheet.rows))} :
          IndexShadows(sc, ucid, sIdx, uIdx)

\* two rows have the Signature of a record that is matched by Signature:
\* the record updates the second one
C17_Witness ==
  /\ JobBuilt
  /\ Len(sheet.rows) = 2
  /\ \E n \in DOMAIN facturas :
       /\ BySignature(n, uuid_to_row(sheet, JobRules))
       /\ \A i \in DOMAIN sheet.rows :
            RowSignature(sig_cols(sheet, JobRules), sheet.rows[i]) = sig_key(facturas[n])
       /\ \E k \in UpdatesOf(n) : JobPlan.updates[k].id = sheet.rows[2].id

\* the identity the destination row with this id holds, None if it has none
IdentityOfRow(ucid, id) ==
  row_uuid(ucid, sheet.rows[CHOOSE i \in DOMAIN sheet.rows : sheet.rows[i].id = id])

\* C20: Identity preservation.  A record with a non-empty identity never
\* becomes an update of a destination row whose identity cell holds another
\* non-empty identity: it updates the row with its own identity or is
\* inserted.
C20_IdentityPreserved ==
  JobBuilt =>
    \A ucid \in {uuid_col_id(sheet, JobRules)} :
      \A n \in DOMAIN facturas : \A k \in UpdatesOf(n) :
        HasIdentity(facturas[n]) =>
          \/ ~Truthy(IdentityOfRow(ucid, JobPlan.updates[k].id))
          \/ IdentityOfRow(ucid, JobPlan.updates[k].id) = uuid_val(facturas[n])

(***************************************************************************)
(* bind_get_all (lines 132-146): one account's paginated fetch.            *)
(*                                                                         *)
(* The remote is a function from url to the answer a GET of it gets:       *)
(* [kind, nextLink].  kind says how the request ends (no answer, a non-2xx *)
(* status, a body that is not a JSON object with a list under "value") or  *)
(* what the page's "value" is (absent, or two records); nextLink           *)
(* is a url, None when the property is absent, or the empty text.          *)
(***************************************************************************)
MaxPages == 3       \* urls the remote serves
MaxRequests == 4    \* requests one fetch is followed for

UrlName(i) ==
  CASE i = 1 -> "u1" [] i = 2 -> "u2" [] i = 3 -> "u3" [] i = 4 -> "u4" [] OTHER -> "u5"

Urls == {UrlName(i) : i \in 1..MaxPages}

FailKinds == {"transport", "status", "bad_body"}

ValueKinds == {"absent", "two"}

Answers ==
  [kind : ValueKinds, nextLink : Urls \cup {None, ""}]
    \cup [kind : FailKinds, nextLink : {None}]

\* line 142: js.get("value", [])
ValueOf(u, answer) ==
  IF answer.kind = "two" THEN << [from |-> u, ix |-> 1], [from |-> u, ix |-> 2] >>
  ELSE << >>

\* lines 139-141 raise: client.get, raise_for_status or r.json()/js.get
GetPageFails ==
  /\ gpc = "loop"
  /\ Truthy(url)
  /\ page <= MaxRequests
  /\ remote[url].kind \in FailKinds
  /\ gpc' = "raised"
  /\ UNCHANGED <<remote, url, page, fetched, ret, recVars, cfg, aggVars, schedVars>>

\* a variant that puts a page's records before those fetched so far
Accumulate_Prepend(facs, value) == value \o facs

\* line 142: facturas.extend(...)
Accumulate(facs, value) == facs \o value

\* lines 138-144: one turn of `while url:`
GetPage ==
  /\ gpc = "loop"
  /\ Truthy(url)
  /\ page <= MaxRequests
  /\ remote[url].kind \notin FailKinds
  /\ fetched' = Accumulate(fetched, ValueOf(url, remote[url]))
  /\ url' = remote[url].nextLink
  /\ page' = page + 1
  /\ UNCHANGED <<remote, gpc, ret, recVars, cfg, aggVars, schedVars>>

\* line 145: the loop is left and the list returned
GetReturn ==
  /\ gpc = "loop"
  /\ ~Truthy(url)
  /\ ret' = << fetched >>
  /\ gpc' = "returned"
  /\ UNCHANGED <<remote, url, page, fetched, recVars, cfg, aggVars, schedVars>>

InitGet ==
  /\ remote \in [Urls -> Answers]
  /\ url = UrlName(1)
  /\ page = 1
  /\ fetched = << >>
  /\ gpc = "loop"
  /\ ret = NoReturn
  /\ AggIdle
  /\ SchedIdle
  /\ RecIdle

NextGet == GetPage \/ GetPageFails \/ GetReturn

\* every awaited request ends: the client has a timeout (line 137)
SpecGet == InitGet /\ [][NextGet]_vars /\ WF_vars(NextGet)

\* the url of the k-th request when the links are followed from the first
\* url; None when the fetch has ended before
RECURSIVE ChainUrl(_)
ChainUrl(k) ==
  IF k = 1 THEN UrlName(1)
  ELSE IF Truthy(ChainUrl(k - 1)) /\ remote[ChainUrl(k - 1)].kind \notin FailKinds
    THEN remote[ChainUrl(k - 1)].nextLink
    ELSE None

\* the "value" arrays of the first k pages, in request order
RECURSIVE ChainValues(_)
ChainValues(k) ==
  IF k = 0 THEN << >>
  ELSE ChainValues(k - 1) \o ValueOf(ChainUrl(k), remote[ChainUrl(k)])

\* following the links reaches a page that fails or has no nextLink
ChainEnds ==
  \E k \in 1..MaxPages :
    /\ Truthy(ChainUrl(k))
    /\ remote[ChainUrl(k)].kind \in FailKinds \/ ~Truthy(remote[ChainUrl(k)].nextLink)

GetDone == gpc \in {"returned", "raised"}

\* pages are requested one after another along the links; the fetch returns
\* at the first page without nextLink with all the pages' records in request
\* order; a failed request ends it with an error and nothing is returned
PagesInOrder ==
  /\ gpc = "loop" =>
       /\ url = ChainUrl(page)
       /\ fetched = ChainValues(page - 1)
       /\ ret = NoReturn
       /\ \A k \in 1..(page - 1) :
            remote[ChainUrl(k)].kind \notin FailKinds
            /\ (k < page - 1 => Truthy(remote[ChainUrl(k)].nextLink))
  /\ gpc = "returned" =>
       /\ ret = << ChainValues(page - 1) >>
       /\ ~Truthy(remote[ChainUrl(page - 1)].nextLink)
       /\ \A k \in 1..(page - 1) :
            remote[ChainUrl(k)].kind \notin FailKinds
            /\ (k < page - 1 => Truthy(remote[ChainUrl(k)].nextLink))
  /\ gpc = "raised" =>
       /\ remote[ChainUrl(page)].kind \in FailKinds
       /\ ret = NoReturn

\* C18: Pagination.  bind_get_all requests the pages one after another along
\* each page's nextLink, stops at the first page without nextLink (absent or
\* empty) and returns all pages' "value" arrays concatenated in request
\* order; a failed page request ends the fetch with an error and no partial
\* list is returned; when following the links reaches a page without
\* nextLink, the fetch ends.
C18_Pagination == []PagesInOrder /\ (ChainEnds ~> GetDone)

\* a fetch over three pages has returned the records of all of them
C18_Witness ==
  /\ gpc = "returned"
  /\ page = 4
  /\ Len(ret[1]) >= 3
  /\ \E i, j \in DOMAIN ret[1] : i < j /\ ret[1][i].from # ret[1][j].from

====
